---- MODULE Spec2Model ----
(***************************************************************************)
(* Model of upload/main.go: a directory tree is walked, one goroutine per  *)
(* regular file streams the file to a remote object while hashing it, the  *)
(* (path, sha) results are collected over an unbuffered channel into a map *)
(* and the map is published as manifest.json (remote, local, stdout).      *)
(*                                                                         *)
(* Strings are sequences of one-character atoms; a path is a sequence of   *)
(* segments (each a string) plus an "abs" flag, i.e. the cleaned form that *)
(* path/filepath produces.  File contents are sequences of bytes.          *)
(***************************************************************************)
EXTENDS Integers, Sequences, FiniteSets, TLC

\* ---------------------------------------------------------------- bounds
\* Longest file content (bytes) and longest destination URI body (characters).
MaxLen == 1
MaxUriLen == 3

\* ---------------------------------------------------------------- strings
Bytes == {0, 1}
Contents == UNION {[1..n -> Bytes] : n \in 0..MaxLen}

Slash == "/"
Scheme == <<"g", "s", ":", "/", "/">>
UriChars == {"b", Slash}
UriBodies == UNION {[1..n -> UriChars] : n \in 0..MaxUriLen}
AllUris == UriBodies \cup {Scheme \o u : u \in UriBodies}

\* strings.HasPrefix / strings.TrimPrefix
HasPrefix(s, p) == Len(s) >= Len(p) /\ SubSeq(s, 1, Len(p)) = p
TrimPrefix(s, p) == IF HasPrefix(s, p) THEN SubSeq(s, Len(p) + 1, Len(s)) ELSE s

\* strings.SplitN(s, "/", 2): cut at the first separator, if there is one.
SplitN2(s) ==
    LET hits == {i \in 1..Len(s) : s[i] = Slash}
    IN  IF hits = {} THEN <<s>>
        ELSE LET i == CHOOSE j \in hits : \A k \in hits : j <= k
             IN  <<SubSeq(s, 1, i - 1), SubSeq(s, i + 1, Len(s))>>

\* A mutant of parseUri that accepts a URI without separator (empty prefix).
parseUriNoCheck(uri) ==
    LET split == SplitN2(TrimPrefix(uri, Scheme))
    IN  [err |-> FALSE, bucket |-> split[1],
         path |-> IF Len(split) = 2 THEN split[2] ELSE <<>>]

parseUri(uri) ==
    LET split == SplitN2(TrimPrefix(uri, Scheme))
    IN  IF Len(split) # 2
        THEN [err |-> TRUE, bucket |-> <<>>, path |-> <<>>]
        ELSE [err |-> FALSE, bucket |-> split[1], path |-> split[2]]

\* ---------------------------------------------------------------- paths
\* filepath.Clean of a string without "." and ".." elements: the non-empty
\* segments between separators; a leading separator makes the path absolute.
RECURSIVE Segments(_)
Segments(s) ==
    IF s = <<>> THEN <<>>
    ELSE LET parts == SplitN2(s)
             rest == IF Len(parts) = 2 THEN Segments(parts[2]) ELSE <<>>
         IN  IF parts[1] = <<>> THEN rest ELSE <<parts[1]>> \o rest

Clean(s) == [abs |-> HasPrefix(s, <<Slash>>), segs |-> Segments(s)]

\* filepath.Join(a, b) of two cleaned paths: empty elements are ignored, the
\* result is absolute iff its first non-empty element is.
Join(a, b) ==
    IF a.segs = <<>> /\ ~a.abs THEN b
    ELSE [abs |-> a.abs, segs |-> a.segs \o b.segs]

\* filepath.Abs
Abs(wd, p) == IF p.abs THEN p ELSE Join(wd, p)

\* filepath.Rel(base, target) for a target below base.
Rel(base, target) ==
    [abs |-> FALSE, segs |-> SubSeq(target.segs, Len(base.segs) + 1, Len(target.segs))]

AbsPath(segs) == [abs |-> TRUE, segs |-> segs]
Child(p, name) == [abs |-> p.abs, segs |-> Append(p.segs, name)]

\* ---------------------------------------------------------------- file system
R == <<"r">>
W == <<"w">>
D == <<"d">>
F == <<"f">>
ManifestName == <<"manifest.json">>

\* Directory entries are listed in lexical order (readDirNames sorts).
NameOrder == <<D, F, ManifestName>>

Universe ==
    {AbsPath(<<R>>), AbsPath(<<R, D>>), AbsPath(<<R, D, F>>), AbsPath(<<R, F>>),
     AbsPath(<<R, ManifestName>>), AbsPath(<<W>>), AbsPath(<<W, ManifestName>>)}

Absent == [kind |-> "absent", content |-> <<>>]
Dir == [kind |-> "dir", content |-> <<>>]
Link == [kind |-> "link", content |-> <<>>]
Other == [kind |-> "other", content |-> <<>>]
File(c) == [kind |-> "file", content |-> c]
Files == {File(c) : c \in Contents}

PathR == AbsPath(<<R>>)
PathRD == AbsPath(<<R, D>>)
PathRDF == AbsPath(<<R, D, F>>)
PathRF == AbsPath(<<R, F>>)
PathRM == AbsPath(<<R, ManifestName>>)
PathW == AbsPath(<<W>>)
PathWM == AbsPath(<<W, ManifestName>>)

MkFs(r, d, df, f, rm, wm) ==
    (PathR :> r) @@ (PathRD :> d) @@ (PathRDF :> df) @@ (PathRF :> f) @@ (PathRM :> rm)
    @@ (PathW :> Dir) @@ (PathWM :> wm)

Parent(p) == [abs |-> p.abs, segs |-> SubSeq(p.segs, 1, Len(p.segs) - 1)]

\* An entry exists only inside a directory.
WellFormed(f) ==
    \A p \in Universe :
        (Len(p.segs) > 1 /\ f[p].kind # "absent") => f[Parent(p)].kind = "dir"

\* Trees with up to two regular files, of any contents, and trees that also
\* hold /r/f, where every file has the one content given here.
SmallTree(f) == f[PathRF] = Absent
FixedContents(f) ==
    /\ f[PathRF] \in {Absent, File(<<1>>)}
    /\ f[PathRDF] \in {Absent, File(<<0>>)}
    /\ f[PathRM] \in {Absent, Link, File(<<>>)}
    /\ f[PathWM] \in {Absent, File(<<1>>)}

FileSystems ==
    {f \in {MkFs(r, d, df, x, rm, wm) :
                r \in {Dir, Link} \cup Files, d \in {Absent, Dir, Link, Other},
                df \in {Absent} \cup Files, x \in {Absent, File(<<1>>)},
                rm \in {Absent, Link} \cup Files, wm \in {Absent} \cup Files} :
        WellFormed(f) /\ (SmallTree(f) \/ FixedContents(f))}

\* ---------------------------------------------------------------- hashing tee
\* sha256.New / Write / Sum and hex.EncodeToString, on a hash one byte wide
\* that is injective on the contents of the model.
HashInit == 0
HashUpdate(h, b) == (h * 3 + b + 1) % 256

RECURSIVE HashOf(_, _)
HashOf(h, bytes) ==
    IF bytes = <<>> THEN h ELSE HashOf(HashUpdate(h, Head(bytes)), Tail(bytes))

HexDigits == <<"0", "1", "2", "3", "4", "5", "6", "7", "8", "9", "a", "b", "c", "d", "e", "f">>
Hex(h) == <<HexDigits[(h \div 16) + 1], HexDigits[(h % 16) + 1]>>

Digest(h) == <<"sha256:">> \o Hex(h)

\* What can go wrong in io.Copy(h, io.TeeReader(f, gcsObj)) on a file of n
\* bytes: nothing, a read error before chunk i (or in place of EOF), or a
\* sink write error on chunk i.  A chunk is one byte.
NoFail == [at |-> 0, kind |-> "none"]
CopyFailures(n) ==
    {NoFail} \cup {[at |-> i, kind |-> "read"] : i \in 1..(n + 1)}
             \cup {[at |-> i, kind |-> "write"] : i \in 1..n}

\* A mutant of TeeCopy: the chunk is fed to the hash before the sink has
\* accepted it, so a chunk whose sink write failed is hashed.
RECURSIVE TeeCopyHashFirst(_, _, _, _)
TeeCopyHashFirst(content, i, st, fail) ==
    IF i > Len(content)
    THEN [written |-> st.written, h |-> st.h,
          err |-> IF fail.at = i /\ fail.kind = "read" THEN "read" ELSE "none"]
    ELSE IF fail.at = i /\ fail.kind = "read"
    THEN [written |-> st.written, h |-> st.h, err |-> "read"]
    ELSE IF fail.at = i /\ fail.kind = "write"
    THEN [written |-> st.written, h |-> HashUpdate(st.h, content[i]), err |-> "write"]
    ELSE TeeCopyHashFirst(content, i + 1,
                 [written |-> Append(st.written, content[i]),
                  h |-> HashUpdate(st.h, content[i])], fail)

\* The copy loop from chunk i on.  TeeReader.Read reads a chunk, writes it to
\* the sink and returns the number of bytes the sink accepted together with
\* the sink's error; io.Copy feeds exactly those bytes to the hash and stops
\* on the error.  With one-byte chunks a failed sink write accepted nothing.
RECURSIVE TeeCopy(_, _, _, _)
TeeCopy(content, i, st, fail) ==
    IF i > Len(content)
    THEN [written |-> st.written, h |-> st.h,
          err |-> IF fail.at = i /\ fail.kind = "read" THEN "read" ELSE "none"]
    ELSE IF fail.at = i /\ fail.kind = "read"
    THEN [written |-> st.written, h |-> st.h, err |-> "read"]
    ELSE IF fail.at = i /\ fail.kind = "write"
    THEN [written |-> st.written, h |-> st.h, err |-> "write"]
    ELSE TeeCopy(content, i + 1,
                 [written |-> Append(st.written, content[i]),
                  h |-> HashUpdate(st.h, content[i])], fail)

\* ---------------------------------------------------------------- state
VARIABLES
    uri, cwd, srcFlag, fs,      \* -dst, working directory, -src, the file system
    pc, exit,                   \* main's position; "running" or how the process ended
    bucketName, gcsPath, absRoot,
    todo, walkErrs,             \* filepath.Walk: entries still to visit; entries whose err was non-nil
    tasks, wg, closed, closerPc,\* upload goroutines, WaitGroup counter, shaCh closed, closer goroutine
    mfst, received,             \* the manifest map; number of values received from shaCh
    remote,                     \* committed remote objects: key -> data
    m, mfstObj, localManifest, stdout

vars == <<uri, cwd, srcFlag, fs, pc, exit, bucketName, gcsPath, absRoot, todo, walkErrs,
          tasks, wg, closed, closerPc, mfst, received, remote, m, mfstObj,
          localManifest, stdout>>

inputs == <<uri, cwd, srcFlag, fs>>
parsed == <<bucketName, gcsPath>>
walker == <<absRoot, todo, walkErrs>>
publisher == <<m, mfstObj, localManifest, stdout>>

\* ---------------------------------------------------------------- inputs
Dot == [abs |-> FALSE, segs |-> <<>>]
\* Working directory and -src: "." inside the tree, and from another directory
\* "." and the tree's absolute path.
Invocations ==
    {[cwd |-> PathR, src |-> Dot], [cwd |-> PathW, src |-> PathR], [cwd |-> PathW, src |-> Dot]}
SampleUris == {Scheme \o <<"b", Slash, "b">>, <<"b">>}

\* The tree used while the destination URI ranges over all of AllUris.
UriCaseFs ==
    [p \in Universe |->
        IF p \in {PathR, PathW} THEN Dir
        ELSE IF p = PathRM THEN File(<<>>)
        ELSE Absent]

\* ---------------------------------------------------------------- helpers
\* Function update that may extend the domain (a Go map assignment).
MapPut(f, k, v) == [x \in DOMAIN f \cup {k} |-> IF x = k THEN v ELSE f[x]]

EmptyMap == [x \in {} |-> {}]

\* json.Marshal of map[string]string: the key/value pairs of the object.
Marshal(mp) == {<<k, mp[k]>> : k \in DOMAIN mp}

\* The names readDirNames returns for directory p, sorted.
Children(p) ==
    LET names == SelectSeq(NameOrder,
                    LAMBDA n : Child(p, n) \in Universe /\ fs[Child(p, n)].kind # "absent")
    IN  [i \in 1..Len(names) |-> Child(p, names[i])]

\* A mutant of RelPathOf: no special case for a root that is itself the file.
RelPathAlwaysRel(root, path) == Rel(root, path)

\* The relative path the walk callback computes for a regular file.
RelPathOf(root, path) == IF root = path THEN path ELSE Rel(root, path)

\* Where os.Open(relPath) looks: relative names resolve against the working directory.
OpenTarget(relPath) == Abs(cwd, relPath)

\* The object name uploadFile writes to.
ObjectKey(relPath) == Join(Clean(gcsPath), relPath)
ManifestKey == Join(Clean(gcsPath), [abs |-> FALSE, segs |-> <<ManifestName>>])

NewTask(path, relPath) ==
    [path |-> path, relPath |-> relPath, pc |-> "open", content |-> <<>>,
     written |-> <<>>, h |-> HashInit, sha |-> <<>>, err |-> "none", closeErr |-> FALSE]

Running == exit = "running"
Fatal == exit' = "fatal"

\* ---------------------------------------------------------------- initial states
TypeInit ==
    /\ pc = "parse" /\ exit = "running"
    /\ bucketName = <<>> /\ gcsPath = <<>>
    /\ absRoot = Dot /\ todo = <<>> /\ walkErrs = {}
    /\ tasks = <<>> /\ wg = 0 /\ closed = FALSE /\ closerPc = "none"
    /\ mfst = EmptyMap /\ received = 0
    /\ remote = EmptyMap
    /\ m = {} /\ mfstObj = "none" /\ localManifest = [written |-> FALSE, data |-> {}]
    /\ stdout = <<>>

\* Every tree with a few destination URIs, and every destination URI with one tree.
Init ==
    /\ \/ /\ uri \in SampleUris
          /\ fs \in FileSystems
          /\ \E inv \in Invocations :
                /\ fs[inv.cwd].kind = "dir"
                /\ cwd = inv.cwd /\ srcFlag = inv.src
       \/ /\ uri \in AllUris
          /\ fs = UriCaseFs
          /\ cwd = PathR
          /\ srcFlag = Dot
    /\ TypeInit

\* ---------------------------------------------------------------- main: startup
\* flag.Parse, parseUri; log.Fatal on error.
ParseDst ==
    /\ Running /\ pc = "parse"
    /\ LET r == parseUri(uri)
       IN  IF r.err
           THEN Fatal /\ UNCHANGED <<pc, parsed>>
           ELSE /\ bucketName' = r.bucket /\ gcsPath' = r.path
                /\ pc' = "setup" /\ UNCHANGED exit
    /\ UNCHANGED <<inputs, walker, tasks, wg, closed, closerPc, mfst, received, remote, publisher>>

\* storage.NewClient (may fail), filepath.Abs, and the start of filepath.Walk.
Setup ==
    /\ Running /\ pc = "setup"
    /\ \E clientErr \in BOOLEAN :
          IF clientErr
          THEN Fatal /\ UNCHANGED <<pc, absRoot, todo>>
          ELSE /\ absRoot' = Abs(cwd, srcFlag)
               /\ todo' = <<Abs(cwd, srcFlag)>>
               /\ pc' = "walk" /\ UNCHANGED exit
    /\ UNCHANGED <<inputs, parsed, walkErrs, tasks, wg, closed, closerPc, mfst, received,
                   remote, publisher>>

\* ---------------------------------------------------------------- walker
\* Lstat of the next entry fails: Walk calls the callback with a nil FileInfo
\* and the callback's fi.Mode() panics.
WalkLstatFail ==
    /\ Running /\ pc = "walk" /\ todo # <<>>
    /\ walkErrs' = walkErrs \cup {Head(todo)}
    /\ exit' = "panic"
    /\ UNCHANGED <<inputs, pc, parsed, absRoot, todo, tasks, wg, closed, closerPc, mfst,
                   received, remote, publisher>>

\* The callback on a directory: err (from reading the directory) is ignored
\* and nil is returned, so Walk goes on, without the directory's entries
\* when it could not read them.
WalkDir ==
    /\ Running /\ pc = "walk" /\ todo # <<>>
    /\ fs[Head(todo)].kind = "dir"
    /\ \E readErr \in BOOLEAN :
          /\ walkErrs' = IF readErr THEN walkErrs \cup {Head(todo)} ELSE walkErrs
          /\ todo' = (IF readErr THEN <<>> ELSE Children(Head(todo))) \o Tail(todo)
    /\ UNCHANGED <<inputs, pc, exit, parsed, absRoot, tasks, wg, closed, closerPc, mfst,
                   received, remote, publisher>>

\* The callback on a symbolic link or another non-regular entry.
WalkSkip ==
    /\ Running /\ pc = "walk" /\ todo # <<>>
    /\ fs[Head(todo)].kind \in {"link", "other"}
    /\ todo' = Tail(todo)
    /\ UNCHANGED <<inputs, pc, exit, parsed, absRoot, walkErrs, tasks, wg, closed, closerPc,
                   mfst, received, remote, publisher>>

\* A mutant of WalkFile: the walker dispatches a file only once the tasks
\* dispatched before have finished.
WalkFileWaits ==
    /\ Running /\ pc = "walk" /\ todo # <<>>
    /\ fs[Head(todo)].kind = "file"
    /\ wg = 0
    /\ wg' = wg + 1
    /\ tasks' = Append(tasks, NewTask(Head(todo), RelPathOf(absRoot, Head(todo))))
    /\ todo' = Tail(todo)
    /\ UNCHANGED <<inputs, pc, exit, parsed, absRoot, walkErrs, closed, closerPc, mfst,
                   received, remote, publisher>>

\* A mutant of WalkFile: the goroutine is started without wg.Add(1).
WalkFileNoAdd ==
    /\ Running /\ pc = "walk" /\ todo # <<>>
    /\ fs[Head(todo)].kind = "file"
    /\ tasks' = Append(tasks, NewTask(Head(todo), RelPathOf(absRoot, Head(todo))))
    /\ todo' = Tail(todo)
    /\ UNCHANGED <<inputs, pc, exit, parsed, absRoot, walkErrs, wg, closed, closerPc, mfst,
                   received, remote, publisher>>

\* The callback on a regular file: wg.Add(1) and the go statement.
WalkFile ==
    /\ Running /\ pc = "walk" /\ todo # <<>>
    /\ fs[Head(todo)].kind = "file"
    /\ wg' = wg + 1
    /\ tasks' = Append(tasks, NewTask(Head(todo), RelPathOf(absRoot, Head(todo))))
    /\ todo' = Tail(todo)
    /\ UNCHANGED <<inputs, pc, exit, parsed, absRoot, walkErrs, closed, closerPc, mfst,
                   received, remote, publisher>>

\* A mutant of WalkReturn: the closer is started only when a task was dispatched.
WalkReturnCloserIfTasks ==
    /\ Running /\ pc = "walk" /\ todo = <<>>
    /\ closerPc' = IF tasks = <<>> THEN closerPc ELSE "wait"
    /\ pc' = "range"
    /\ UNCHANGED <<inputs, exit, parsed, walker, tasks, wg, closed, mfst, received, remote,
                   publisher>>

\* Walk returns nil; main starts the closer goroutine and enters the range loop.
WalkReturn ==
    /\ Running /\ pc = "walk" /\ todo = <<>>
    /\ closerPc' = "wait"
    /\ pc' = "range"
    /\ UNCHANGED <<inputs, exit, parsed, walker, tasks, wg, closed, mfst, received, remote,
                   publisher>>

\* ---------------------------------------------------------------- upload goroutines
TaskIds == 1..Len(tasks)
SetTask(t, rec) == [tasks EXCEPT ![t] = rec]

\* os.Open succeeds on an existing regular file (a link of the model dangles).
CanOpen(target) == target \in Universe /\ fs[target].kind = "file"

\* uploadFile, lines 116-124: NewWriter, then os.Open(relPath).
TaskOpen(t) ==
    /\ Running /\ tasks[t].pc = "open"
    /\ \E ioErr \in BOOLEAN :
          LET target == OpenTarget(tasks[t].relPath)
          IN  IF ioErr \/ ~CanOpen(target)
              THEN tasks' = SetTask(t, [tasks[t] EXCEPT !.err = "open", !.pc = "close"])
              ELSE tasks' = SetTask(t, [tasks[t] EXCEPT !.content = fs[target].content,
                                                        !.pc = "copy"])
    /\ UNCHANGED <<inputs, pc, exit, parsed, walker, wg, closed, closerPc, mfst, received,
                   remote, publisher>>

\* uploadFile, lines 127-135: the tee'd copy and, on success, the digest.
TaskCopy(t) ==
    /\ Running /\ tasks[t].pc = "copy"
    /\ \E fail \in CopyFailures(Len(tasks[t].content)) :
          LET r == TeeCopy(tasks[t].content, 1, [written |-> <<>>, h |-> HashInit], fail)
          IN  tasks' = SetTask(t, [tasks[t] EXCEPT
                            !.written = r.written, !.h = r.h, !.err = r.err,
                            !.sha = IF r.err = "none" THEN Digest(r.h) ELSE <<>>,
                            !.pc = "close"])
    /\ UNCHANGED <<inputs, pc, exit, parsed, walker, wg, closed, closerPc, mfst, received,
                   remote, publisher>>

\* uploadFile's deferred calls on return: f.Close and gcsObj.Close, whose
\* error is dropped.  Close commits what was written unless a write failed
\* before or the commit itself fails.
TaskClose(t) ==
    /\ Running /\ tasks[t].pc = "close"
    /\ \E commitErr \in BOOLEAN :
          LET failed == commitErr \/ tasks[t].err = "write"
          IN  /\ remote' = IF failed THEN remote
                           ELSE MapPut(remote, ObjectKey(tasks[t].relPath),
                                       [tag |-> "bytes", val |-> tasks[t].written])
              /\ tasks' = SetTask(t, [tasks[t] EXCEPT
                                !.closeErr = failed,
                                !.pc = IF tasks[t].err = "none" THEN "send" ELSE "failed"])
    /\ UNCHANGED <<inputs, pc, exit, parsed, walker, wg, closed, closerPc, mfst, received,
                   publisher>>

\* A mutant of TaskFatal: the error is only logged and the goroutine goes on
\* to send its (empty) result.
TaskLogOnly(t) ==
    /\ Running /\ tasks[t].pc = "failed"
    /\ tasks' = SetTask(t, [tasks[t] EXCEPT !.pc = "send"])
    /\ UNCHANGED <<inputs, pc, exit, parsed, walker, wg, closed, closerPc, mfst, received,
                   remote, publisher>>

\* The goroutine's log.Fatal(err): the process exits, deferred wg.Done does not run.
TaskFatal(t) ==
    /\ Running /\ tasks[t].pc = "failed"
    /\ Fatal
    /\ UNCHANGED <<inputs, pc, parsed, walker, tasks, wg, closed, closerPc, mfst, received,
                   remote, publisher>>

\* A mutant of Deliver: results are received while the walk is still going on.
DeliverAnytime(t) ==
    /\ Running /\ tasks[t].pc = "send" /\ pc \in {"walk", "range"} /\ ~closed
    /\ mfst' = MapPut(mfst, tasks[t].relPath, tasks[t].sha)
    /\ received' = received + 1
    /\ tasks' = SetTask(t, [tasks[t] EXCEPT !.pc = "sent"])
    /\ UNCHANGED <<inputs, pc, exit, parsed, walker, wg, closed, closerPc, remote, publisher>>

\* shaCh is unbuffered: the goroutine's send and main's receive in the range
\* loop happen together; main then stores the entry in the map.
Deliver(t) ==
    /\ Running /\ tasks[t].pc = "send" /\ pc = "range" /\ ~closed
    /\ mfst' = MapPut(mfst, tasks[t].relPath, tasks[t].sha)
    /\ received' = received + 1
    /\ tasks' = SetTask(t, [tasks[t] EXCEPT !.pc = "sent"])
    /\ UNCHANGED <<inputs, pc, exit, parsed, walker, wg, closed, closerPc, remote, publisher>>

\* A mutant of TaskDone: the goroutine ends without wg.Done.
TaskDoneNoDone(t) ==
    /\ Running /\ tasks[t].pc = "sent"
    /\ tasks' = SetTask(t, [tasks[t] EXCEPT !.pc = "done"])
    /\ UNCHANGED <<inputs, pc, exit, parsed, walker, wg, closed, closerPc, mfst, received,
                   remote, publisher>>

\* After the send: the "Uploaded:" line and the deferred wg.Done.
TaskDone(t) ==
    /\ Running /\ tasks[t].pc = "sent"
    /\ wg' = wg - 1
    /\ tasks' = SetTask(t, [tasks[t] EXCEPT !.pc = "done"])
    /\ UNCHANGED <<inputs, pc, exit, parsed, walker, closed, closerPc, mfst, received, remote,
                   publisher>>

\* Any of the dispatched goroutines may take its next step.
UploadOpen == \E t \in TaskIds : TaskOpen(t)
UploadCopy == \E t \in TaskIds : TaskCopy(t)
UploadClose == \E t \in TaskIds : TaskClose(t)
UploadFatal == \E t \in TaskIds : TaskFatal(t)
Receive == \E t \in TaskIds : Deliver(t)
UploadDone == \E t \in TaskIds : TaskDone(t)

\* ---------------------------------------------------------------- closer goroutine
\* A mutant of CloserWait: the closer does not wait for the counter.
CloserNoWait ==
    /\ Running /\ closerPc = "wait"
    /\ closerPc' = "close"
    /\ UNCHANGED <<inputs, pc, exit, parsed, walker, tasks, wg, closed, mfst, received, remote,
                   publisher>>

\* wg.Wait returns once the counter is zero.
CloserWait ==
    /\ Running /\ closerPc = "wait" /\ wg = 0
    /\ closerPc' = "close"
    /\ UNCHANGED <<inputs, pc, exit, parsed, walker, tasks, wg, closed, mfst, received, remote,
                   publisher>>

CloserClose ==
    /\ Running /\ closerPc = "close"
    /\ closed' = TRUE
    /\ closerPc' = "done"
    /\ UNCHANGED <<inputs, pc, exit, parsed, walker, tasks, wg, mfst, received, remote,
                   publisher>>

\* ---------------------------------------------------------------- main: aggregate and publish
\* The range loop ends when shaCh is closed.
RangeEnd ==
    /\ Running /\ pc = "range" /\ closed
    /\ pc' = "marshal"
    /\ UNCHANGED <<inputs, exit, parsed, walker, tasks, wg, closed, closerPc, mfst, received,
                   remote, publisher>>

\* json.Marshal of a map[string]string does not fail.
MarshalManifest ==
    /\ Running /\ pc = "marshal"
    /\ m' = Marshal(mfst)
    /\ pc' = "writeRemote"
    /\ UNCHANGED <<inputs, exit, parsed, walker, tasks, wg, closed, closerPc, mfst, received,
                   remote, mfstObj, localManifest, stdout>>

\* A mutant of WriteRemote: the manifest object is closed (committed) right
\* after the write instead of at main's return.
WriteRemoteAndCommit ==
    /\ Running /\ pc = "writeRemote"
    /\ \E writeErr \in BOOLEAN :
          IF writeErr
          THEN Fatal /\ UNCHANGED <<pc, mfstObj, remote>>
          ELSE /\ mfstObj' = "committed"
               /\ remote' = MapPut(remote, ManifestKey, [tag |-> "manifest", val |-> m])
               /\ pc' = "writeLocal" /\ UNCHANGED exit
    /\ UNCHANGED <<inputs, parsed, walker, tasks, wg, closed, closerPc, mfst, received,
                   m, localManifest, stdout>>

\* NewWriter for <gcsPath>/manifest.json and Write(m); Close is deferred.
WriteRemote ==
    /\ Running /\ pc = "writeRemote"
    /\ \E writeErr \in BOOLEAN :
          IF writeErr
          THEN Fatal /\ UNCHANGED <<pc, mfstObj>>
          ELSE mfstObj' = "written" /\ pc' = "writeLocal" /\ UNCHANGED exit
    /\ UNCHANGED <<inputs, parsed, walker, tasks, wg, closed, closerPc, mfst, received, remote,
                   m, localManifest, stdout>>

\* ioutil.WriteFile(<manifestPath>/manifest.json), the -manifest directory
\* being one outside the uploaded tree.
WriteLocal ==
    /\ Running /\ pc = "writeLocal"
    /\ \E writeErr \in BOOLEAN :
          IF writeErr
          THEN Fatal /\ UNCHANGED <<pc, localManifest>>
          ELSE /\ localManifest' = [written |-> TRUE, data |-> m]
               /\ pc' = "print" /\ UNCHANGED exit
    /\ UNCHANGED <<inputs, parsed, walker, tasks, wg, closed, closerPc, mfst, received, remote,
                   m, mfstObj, stdout>>

PrintManifest ==
    /\ Running /\ pc = "print"
    /\ stdout' = Append(stdout, m)
    /\ pc' = "return"
    /\ UNCHANGED <<inputs, exit, parsed, walker, tasks, wg, closed, closerPc, mfst, received,
                   remote, m, mfstObj, localManifest>>

\* main returns: the deferred mfstObj.Close commits the manifest object or
\* fails, its error is dropped, and the process exits with status 0.
MainReturn ==
    /\ Running /\ pc = "return"
    /\ \E commitErr \in BOOLEAN :
          IF commitErr
          THEN mfstObj' = "commitFailed" /\ UNCHANGED remote
          ELSE /\ mfstObj' = "committed"
               /\ remote' = MapPut(remote, ManifestKey, [tag |-> "manifest", val |-> m])
    /\ exit' = "ok"
    /\ pc' = "exited"
    /\ UNCHANGED <<inputs, parsed, walker, tasks, wg, closed, closerPc, mfst, received, m,
                   localManifest, stdout>>

\* ---------------------------------------------------------------- specification
Next ==
    \/ ParseDst \/ Setup
    \/ WalkLstatFail \/ WalkDir \/ WalkSkip \/ WalkFile \/ WalkReturn
    \/ UploadOpen \/ UploadCopy \/ UploadClose \/ UploadFatal \/ Receive \/ UploadDone
    \/ CloserWait \/ CloserClose
    \/ RangeEnd \/ MarshalManifest \/ WriteRemote \/ WriteLocal \/ PrintManifest \/ MainReturn

Spec == Init /\ [][Next]_vars

\* The Go scheduler lets every goroutine that can run take its next step: main
\* (startup, walk, range loop, publisher), each upload goroutine, the closer.
MainStep ==
    \/ ParseDst \/ Setup
    \/ WalkLstatFail \/ WalkDir \/ WalkSkip \/ WalkFile \/ WalkReturn
    \/ RangeEnd \/ MarshalManifest \/ WriteRemote \/ WriteLocal \/ PrintManifest \/ MainReturn
TaskStep(t) ==
    /\ t \in TaskIds
    /\ TaskOpen(t) \/ TaskCopy(t) \/ TaskClose(t) \/ TaskFatal(t) \/ Deliver(t) \/ TaskDone(t)
CloserStep == CloserWait \/ CloserClose

\* Whether a run ends does not depend on what the files hold: the fair
\* specification starts from the trees whose files have the fixed contents.
LiveInit == Init /\ FixedContents(fs)

FairSpec ==
    /\ LiveInit /\ [][Next]_vars
    /\ WF_vars(MainStep)
    /\ WF_vars(CloserStep)
    /\ \A t \in 1..Cardinality(Universe) : WF_vars(TaskStep(t))

\* ---------------------------------------------------------------- properties
PublisherPcs == {"marshal", "writeRemote", "writeLocal", "print", "return", "exited"}
PublisherStarted == pc \in PublisherPcs
NothingPublished == mfstObj = "none" /\ ~localManifest.written /\ stdout = <<>>

IsUnder(root, p) ==
    Len(p.segs) >= Len(root.segs) /\ SubSeq(p.segs, 1, Len(root.segs)) = root.segs
RegularFilesUnder(root) == {p \in Universe : fs[p].kind = "file" /\ IsUnder(root, p)}
ExpectedKeys == {RelPathOf(absRoot, p) : p \in RegularFilesUnder(absRoot)}

TaskFailed(t) == tasks[t].err # "none"
TaskReturned(t) == tasks[t].pc \in {"send", "sent", "done"}
TaskDelivered(t) == tasks[t].pc \in {"sent", "done"}

\* C1: once the publisher runs, the manifest's keys are exactly the relative
\* paths of the regular files under the root.
C1_KeysAreRegularFiles == PublisherStarted => DOMAIN mfst = ExpectedKeys

\* The same, for walks in which no entry reported an error.
KeysAreRegularFilesOfCleanWalk ==
    (PublisherStarted /\ walkErrs = {}) => DOMAIN mfst = ExpectedKeys

\* C2: when an upload task has failed (open, read or remote write), the run
\* has not ended in success and nothing of the manifest has been published.
C2_FailedTaskNeverPublishes ==
    (\E t \in TaskIds : TaskFailed(t)) =>
        exit # "ok" /\ ~PublisherStarted /\ NothingPublished

C2_Witness ==
    /\ Len(tasks) = 3 /\ tasks[2].err = "write" /\ exit = "fatal"
    /\ tasks[1].pc = "done" /\ tasks[3].pc = "send"

\* C3: once the publisher has started, the walk is over and every dispatched
\* task has delivered its result: as many results received as tasks dispatched.
C3_PublishAfterAllDelivered ==
    PublisherStarted =>
        /\ todo = <<>>
        /\ received = Len(tasks)
        /\ \A t \in TaskIds : TaskDelivered(t) /\ tasks[t].relPath \in DOMAIN mfst

C3_Witness == pc = "writeLocal" /\ Len(tasks) = 3 /\ received = 3

\* C4: the digest recorded under a file's relative path is the hash of the
\* content of the file the walker discovered.
C4_DigestOfDiscoveredFile ==
    \A t \in TaskIds :
        tasks[t].relPath \in DOMAIN mfst =>
            mfst[tasks[t].relPath] = Digest(HashOf(HashInit, fs[tasks[t].path].content))

\* C5: under fair scheduling every run ends; unless it ends in a failure, it
\* ends in success with exactly one manifest entry per dispatched task, in the
\* map and in the published encoding.
C5_EventuallyCompletes ==
    <>(\/ exit \in {"fatal", "panic"}
       \/ /\ exit = "ok"
          /\ Cardinality(DOMAIN mfst) = Len(tasks)
          /\ stdout # <<>> /\ Cardinality(stdout[1]) = Len(tasks))

\* The liveness half of C2: a run in which a task has failed ends in failure.
FailedTaskEndsRun ==
    (\E t \in TaskIds : TaskFailed(t)) ~> exit \in {"fatal", "panic"}

C5_Witness ==
    /\ exit = "ok" /\ Len(tasks) = 3 /\ wg = 0 /\ closed
    /\ Cardinality(DOMAIN mfst) = 3 /\ Cardinality(stdout[1]) = 3

\* C6: the bytes a task that returned a result wrote to its remote object are
\* the content of the file the walker discovered.
C6_RemoteBytesAreFileBytes ==
    \A t \in TaskIds : TaskReturned(t) => tasks[t].written = fs[tasks[t].path].content

\* C7: a run in which the walk reported an error for some entry does not end
\* in success and publishes nothing.
C7_WalkErrorAborts == walkErrs # {} => exit # "ok" /\ NothingPublished

\* C8: a task whose remote commit (Close) failed reports no result, and the
\* run does not end in success.
C8_CommitFailureIsFatal ==
    \A t \in TaskIds :
        tasks[t].closeErr => ~TaskDelivered(t) /\ tasks[t].relPath \notin DOMAIN mfst
                             /\ exit # "ok"

\* C9: the run ends in success only with the remote manifest object committed
\* and the local manifest file written.
C9_SuccessNeedsBothCopies ==
    exit = "ok" => mfstObj = "committed" /\ ManifestKey \in DOMAIN remote
                   /\ localManifest.written

\* C10: parsing the destination succeeds only with a non-empty bucket and a
\* non-empty prefix.
C10_ParsedDestinationNonEmpty == pc # "parse" => bucketName # <<>> /\ gcsPath # <<>>

\* C11: a destination without a separator between bucket and prefix makes
\* the run fail at parsing: no client, no walk, no task, no remote object and
\* no manifest in any state of such a run.
NoSeparator(u) == \A i \in 1..Len(TrimPrefix(u, Scheme)) : TrimPrefix(u, Scheme)[i] # Slash

C11_NoPrefixFailsBeforeWork ==
    NoSeparator(uri) =>
        /\ pc = "parse" /\ exit \in {"running", "fatal"}
        /\ todo = <<>> /\ tasks = <<>> /\ wg = 0 /\ closerPc = "none"
        /\ remote = EmptyMap /\ NothingPublished

C11_Witness == uri = Scheme \o <<"b">> /\ exit = "fatal" /\ pc = "parse"

\* C12: for a root directory without regular files, a fairly scheduled run
\* in which no operation fails ends in success with no task dispatched, the
\* channel closed and the empty manifest in the remote object, the local
\* file and on standard output.
RootPath == Abs(cwd, srcFlag)
EmptyTree == fs[RootPath].kind = "dir" /\ RegularFilesUnder(RootPath) = {}
EmptyManifestPublished ==
    /\ exit = "ok" /\ tasks = <<>> /\ closed /\ mfst = EmptyMap
    /\ mfstObj = "committed" /\ ManifestKey \in DOMAIN remote
    /\ remote[ManifestKey] = [tag |-> "manifest", val |-> {}]
    /\ localManifest = [written |-> TRUE, data |-> {}]
    /\ stdout = <<{}>>

C12_EmptyTreePublishesEmptyManifest ==
    EmptyTree => <>(\/ exit \in {"fatal", "panic"}
                    \/ mfstObj = "commitFailed"
                    \/ EmptyManifestPublished)

C12_Witness == EmptyTree /\ fs[PathRD].kind = "dir" /\ EmptyManifestPublished

\* C13: for a root that is a regular file, at most one task is dispatched,
\* exactly one once the walk is over, its key is the root path itself, and
\* the manifest of the publisher has that key alone.
RootIsFile == fs[RootPath].kind = "file"

C13_SingleFileRoot ==
    RootIsFile =>
        /\ Len(tasks) <= 1
        /\ \A t \in TaskIds : tasks[t].relPath = RootPath /\ tasks[t].path = RootPath
        /\ pc \in {"range"} \cup PublisherPcs => Len(tasks) = 1
        /\ PublisherStarted => DOMAIN mfst = {RootPath}

C13_Witness == RootIsFile /\ exit = "ok" /\ DOMAIN mfst = {PathR} /\ Cardinality(stdout[1]) = 1

\* C14: at the end of a successful run, for every key p of the manifest the
\* remote object at prefix/p holds raw file bytes whose hash is the digest
\* recorded for p.
C14_RemoteObjectsMatchManifest ==
    exit = "ok" =>
        \A p \in DOMAIN mfst :
            /\ ObjectKey(p) \in DOMAIN remote
            /\ remote[ObjectKey(p)].tag = "bytes"
            /\ Digest(HashOf(HashInit, remote[ObjectKey(p)].val)) = mfst[p]

\* The same for runs in which every commit succeeded.
TaskCommitted(t) == tasks[t].pc \in {"send", "sent", "done", "failed"} /\ ~tasks[t].closeErr
RemoteObjectsMatchManifestIfCommitted ==
    (exit = "ok" /\ \A t \in TaskIds : TaskCommitted(t)) =>
        \A p \in DOMAIN mfst :
            /\ ObjectKey(p) \in DOMAIN remote
            /\ remote[ObjectKey(p)].tag = "bytes"

\* C15: what a task has hashed is what it has written to its remote stream,
\* also after a failure; a digest is returned only by a task without failure
\* and is the digest of the bytes written; a failed task has no digest.
TaskCopied(t) == tasks[t].pc \in {"close", "send", "sent", "done", "failed"}

C15_DigestOfBytesWritten ==
    \A t \in TaskIds :
        TaskCopied(t) =>
            /\ tasks[t].h = HashOf(HashInit, tasks[t].written)
            /\ tasks[t].err = "none" => tasks[t].sha = Digest(HashOf(HashInit, tasks[t].written))
            /\ tasks[t].err # "none" => tasks[t].sha = <<>> /\ ~TaskReturned(t)

C15_Witness ==
    \E t, u \in TaskIds :
        /\ TaskReturned(t) /\ tasks[t].written # <<>>
        /\ tasks[u].err = "write" /\ tasks[u].pc = "failed"

\* C16: while the walk has entries to visit, the walker's next step on the
\* entry is enabled whatever the dispatched tasks are doing, and with no
\* entry left the walk can return.
C16_WalkerNeverWaits ==
    (Running /\ pc = "walk") =>
        IF todo # <<>> THEN ENABLED (WalkDir \/ WalkSkip \/ WalkFile)
        ELSE ENABLED WalkReturn

C16_Witness ==
    /\ Running /\ pc = "walk" /\ todo # <<>> /\ fs[Head(todo)].kind = "file"
    /\ Len(tasks) = 2 /\ tasks[1].pc = "send" /\ tasks[2].pc = "open"

\* C17: the WaitGroup counter is the number of dispatched tasks that have not
\* run wg.Done and never negative; the closer gets past wg.Wait only with the
\* walk over and every task done; no task is sending or yet to send once the
\* channel is closed; and the channel is closed once.
C17_CloseOnceAfterAllDone ==
    /\ [](/\ wg >= 0
          /\ wg = Cardinality({t \in TaskIds : tasks[t].pc # "done"})
          /\ closerPc \in {"close", "done"} =>
                /\ pc # "walk" /\ todo = <<>>
                /\ \A t \in TaskIds : tasks[t].pc = "done"
          /\ closed = (closerPc = "done"))
    /\ [][closed => closed' /\ closerPc' = "done"]_vars

C17_Witness == closed /\ Len(tasks) = 3 /\ wg = 0 /\ pc = "range"

\* C18: until the walk has returned nothing is aggregated and no task has
\* got past its send: the map is empty, nothing was received, and the
\* counter still counts every dispatched task.
C18_NothingAggregatedDuringWalk ==
    pc \in {"parse", "setup", "walk"} =>
        /\ mfst = EmptyMap /\ received = 0
        /\ wg = Len(tasks)
        /\ \A t \in TaskIds : ~TaskDelivered(t)

C18_Witness ==
    /\ Running /\ pc = "walk" /\ todo = <<>>
    /\ Len(tasks) = 3 /\ \A t \in TaskIds : tasks[t].pc = "send"

\* C19: a run that ended in failure has published no copy of the manifest:
\* no manifest object committed, no local manifest written, nothing printed.
C19_FailureLeavesNoManifest ==
    exit \in {"fatal", "panic"} =>
        /\ mfstObj # "committed"
        /\ \A k \in DOMAIN remote : remote[k].tag # "manifest"
        /\ ~localManifest.written
        /\ stdout = <<>>

C19_Witness == exit = "fatal" /\ pc = "writeLocal" /\ mfstObj = "written" /\ Len(tasks) = 2

\* C20: a task commits its remote object only without failure and with the
\* whole content of the file it opened written.
C20_CommitOnlyCompleteObjects ==
    \A t \in TaskIds :
        TaskCommitted(t) => tasks[t].err = "none" /\ tasks[t].written = tasks[t].content

====
